---------------------------- MODULE Spec2Model ----------------------------
(***************************************************************************)
(* Model of rhino_lamp_edit_script.py: the parameter normalizer            *)
(* (normalize_params) and the assembly pipeline (main, create_base,        *)
(* create_shade, apply_shade_pattern and the pattern generators).          *)
(*                                                                         *)
(* Numbers.  Every numeric parameter is a fixed-point number in            *)
(* hundredths: 1.0 is One = 100, 0.45 is 45, 2.6 is 260.  Sums,            *)
(* differences, comparisons and products by integers are exact.  The       *)
(* binary rounding of Python floats is not modelled.  Diameters are drawn  *)
(* from even numbers of hundredths, so the halving in line 329 is exact.   *)
(*                                                                         *)
(* Kernel.  rhinoscriptsyntax (the rs module) is outside the repository. *)
(* A kernel call either succeeds or returns an empty result; which call  *)
(* site fails in a run is chosen in Init (variable fail).  A kernel call  *)
(* that is handed an empty argument returns an empty result.             *)
(***************************************************************************)
EXTENDS Integers, Sequences, FiniteSets, TLC

\* ------------------------------------------------------------------------
\* Bounds of the model
\* ------------------------------------------------------------------------
MaxDiam == 2
MaxRad == 2
MaxLen == 3

\* ------------------------------------------------------------------------
\* Program constants
\* ------------------------------------------------------------------------
\* 1.0 in hundredths (the literal 1.0 of line 343)
One == 100

Max(a, b) == IF a >= b THEN a ELSE b
Min(a, b) == IF a <= b THEN a ELSE b

\* Python int() on a fixed-point number: truncation toward zero.
IntTrunc(x) == IF x >= 0 THEN (x \div One) * One ELSE 0 - (((0 - x) \div One) * One)

clamp_min(value, minimum) == IF value >= minimum THEN value ELSE minimum

clamp_range(value, min_value, max_value) ==
    IF value < min_value THEN min_value
    ELSE IF value > max_value THEN max_value
    ELSE value

\* p.get(k, d)
Get(p, k, d) == IF k \in DOMAIN p THEN p[k] ELSE d

\* p[k] = v
Put(p, k, v) == [x \in (DOMAIN p) \cup {k} |-> IF x = k THEN v ELSE p[x]]

\* str.lower() on the strings the model draws base_type, shade_form and
\* shade_pattern from.
Lower(s) ==
    CASE s = "Cube" -> "cube"
      [] s = "VASE" -> "vase"
      [] s = "None" -> "none"
      [] s = "Lofted" -> "lofted"
      [] OTHER -> s

\* The PARAMS dictionary, in hundredths.
PARAMS ==
    [ base_type |-> "triangle", base_width |-> 7600, base_depth |-> 7600,
      base_height |-> 5200, triangle_side |-> 10800,
      vase_height |-> 8400, vase_base_radius |-> 4400,
      vase_mid_radius |-> 6200, vase_neck_radius |-> 2600,
      twist_height |-> 7000, twist_radius |-> 4200, twist_top_scale |-> 72,
      twist_sides |-> 600, twist_layers |-> 800, twist_rotation |-> 9500,
      spiral_height |-> 7800, spiral_radius |-> 4600, spiral_top_scale |-> 66,
      spiral_waves |-> 600, spiral_wave_amp |-> 20, spiral_layers |-> 1000,
      spiral_twist |-> 15000, spiral_points_per_wave |-> 1200,
      ripple_height |-> 7200, ripple_radius |-> 4800, ripple_top_scale |-> 68,
      ripple_waves |-> 700, ripple_wave_amp |-> 21, ripple_layers |-> 1000,
      ripple_twist |-> 3000, ripple_points_per_wave |-> 1200,
      neck_outer_radius |-> 2200, neck_height |-> 1400, neck_wall_min |-> 260,
      shade_form |-> "lofted", shade_height |-> 13800,
      shade_outer_radius |-> 5200, shade_wall |-> 260, sleeve_height |-> 1600,
      shade_pattern |-> "blobtrude",
      shade_loft_bottom_sides |-> 300, shade_loft_top_sides |-> 2400,
      shade_loft_top_scale |-> 130, shade_loft_twist |-> 3000,
      tolerance |-> 45,
      slot_count |-> 2600, slot_width |-> 500, slot_depth |-> 1000,
      slot_margin |-> 1200, slot_variation |-> 30, slot_wave_frequency |-> 220,
      lattice_rows |-> 600, lattice_columns |-> 3000,
      lattice_window_width |-> 700, lattice_window_height |-> 1800,
      lattice_window_depth |-> 1100, lattice_margin |-> 1200,
      lattice_offset_ratio |-> 50, lattice_twist_degrees |-> 1000,
      weave_strand_count |-> 800, weave_turns |-> 140,
      weave_pipe_radius |-> 310, weave_steps |-> 7000, weave_margin |-> 1200,
      moire_strand_count |-> 900, moire_turns_primary |-> 160,
      moire_turns_secondary |-> 240, moire_pipe_radius |-> 260,
      moire_steps |-> 8500, moire_rings |-> 600, moire_ring_radius |-> 220,
      moire_margin |-> 1000,
      bubble_rows |-> 700, bubble_columns |-> 2400, bubble_radius |-> 550,
      bubble_margin |-> 1000, bubble_offset_ratio |-> 50,
      bubble_radius_variation |-> 25, bubble_twist |-> 1000,
      bubble_wave_frequency |-> 160,
      blob_rows |-> 900, blob_columns |-> 2000, blob_radius |-> 500,
      blob_offset |-> 220, blob_margin |-> 1000,
      blob_radius_variation |-> 35, blob_twist |-> 1800, blob_mangle |-> 45,
      blob_jitter |-> 120, blob_wave_frequency |-> 170,
      cord_diameter |-> 700, bulb_diameter |-> 3000, port_clearance |-> 260 ]

\* ------------------------------------------------------------------------
\* normalize_params, step by step
\* ------------------------------------------------------------------------

\* line 329: the value normalize_params returns
PortRadius(p) ==
    Max(p["cord_diameter"], p["bulb_diameter"]) \div 2 + p["port_clearance"]

\* NormNeck assigning the minimum whether or not the neck is undersized.
NormNeck_Assign(p) ==
    Put(p, "neck_outer_radius", PortRadius(p) + p["neck_wall_min"])

\* NormNeck with neck_wall_min left out of the minimum.
NormNeck_NoWall(p) ==
    LET min_neck_outer == PortRadius(p)
    IN  IF p["neck_outer_radius"] < min_neck_outer
        THEN Put(p, "neck_outer_radius", min_neck_outer)
        ELSE p

\* lines 330-332
NormNeck(p) ==
    LET min_neck_outer == PortRadius(p) + p["neck_wall_min"]
    IN  IF p["neck_outer_radius"] < min_neck_outer
        THEN Put(p, "neck_outer_radius", min_neck_outer)
        ELSE p

\* lines 333-335
NormShadeRadius(p) ==
    LET min_shade_outer == p["neck_outer_radius"] + p["tolerance"] + p["shade_wall"]
    IN  IF p["shade_outer_radius"] < min_shade_outer
        THEN Put(p, "shade_outer_radius", min_shade_outer)
        ELSE p

\* NormShadeHeight with one wall thickness instead of two.
NormShadeHeight_OneWall(p) ==
    LET min_shade_height == p["neck_height"] + p["shade_wall"]
    IN  IF p["shade_height"] < min_shade_height
        THEN Put(p, "shade_height", min_shade_height)
        ELSE p

\* lines 336-338
NormShadeHeight(p) ==
    LET min_shade_height == p["neck_height"] + p["shade_wall"] * 2
    IN  IF p["shade_height"] < min_shade_height
        THEN Put(p, "shade_height", min_shade_height)
        ELSE p

\* lines 339-341
NormLoft(p) ==
    LET a == Put(p, "shade_loft_bottom_sides",
                 Max(300, IntTrunc(Get(p, "shade_loft_bottom_sides", 300))))
        b == Put(a, "shade_loft_top_sides",
                 Max(300, IntTrunc(Get(a, "shade_loft_top_sides", 1200))))
    IN  Put(b, "shade_loft_top_scale",
            clamp_range(Get(b, "shade_loft_top_scale", 100), 50, 180))

\* NormSleeve raising a short sleeve to neck_height itself.
NormSleeve_FloorAtNeck(p) ==
    LET a == IF p["sleeve_height"] < p["neck_height"]
             THEN Put(p, "sleeve_height", p["neck_height"])
             ELSE p
        max_sleeve == a["shade_height"] - a["shade_wall"] * 2
    IN  IF a["sleeve_height"] > max_sleeve
        THEN Put(a, "sleeve_height", max_sleeve)
        ELSE a

\* NormSleeve with the ceiling applied before the floor.
NormSleeve_CeilingFirst(p) ==
    LET max_sleeve == p["shade_height"] - p["shade_wall"] * 2
        a == IF p["sleeve_height"] > max_sleeve
             THEN Put(p, "sleeve_height", max_sleeve)
             ELSE p
    IN  IF a["sleeve_height"] < a["neck_height"]
        THEN Put(a, "sleeve_height", a["neck_height"] + One)
        ELSE a

\* lines 342-346
NormSleeve(p) ==
    LET a == IF p["sleeve_height"] < p["neck_height"]
             THEN Put(p, "sleeve_height", p["neck_height"] + One)
             ELSE p
        max_sleeve == a["shade_height"] - a["shade_wall"] * 2
    IN  IF a["sleeve_height"] > max_sleeve
        THEN Put(a, "sleeve_height", max_sleeve)
        ELSE a

\* p[k] = max(lo, int(p.get(k, d)))
CoerceCount(p, k, lo, d) == Put(p, k, Max(lo, IntTrunc(Get(p, k, d))))

\* p[k] = max(lo, min(p.get(k, d), hi))
CoerceRatio(p, k, lo, hi, d) == Put(p, k, Max(lo, Min(Get(p, k, d), hi)))

\* p[k] = max(lo, p.get(k, d))
CoerceFloor(p, k, lo, d) == Put(p, k, Max(lo, Get(p, k, d)))

\* lines 347-356
NormBaseCounts(p) ==
    LET p1 == CoerceCount(p, "twist_sides", 300, 600)
        p2 == CoerceCount(p1, "twist_layers", 200, 600)
        p3 == CoerceCount(p2, "spiral_waves", 200, 500)
        p4 == CoerceCount(p3, "spiral_layers", 300, 800)
        p5 == CoerceCount(p4, "spiral_points_per_wave", 600, 1000)
        p6 == CoerceRatio(p5, "spiral_wave_amp", 2, 45, 15)
        p7 == CoerceCount(p6, "ripple_waves", 200, 600)
        p8 == CoerceCount(p7, "ripple_layers", 300, 800)
        p9 == CoerceCount(p8, "ripple_points_per_wave", 600, 1000)
    IN  CoerceRatio(p9, "ripple_wave_amp", 2, 45, 18)

\* lines 357-373
NormPatternCounts(p) ==
    LET p1 == CoerceCount(p, "weave_strand_count", 200, 600)
        p2 == CoerceCount(p1, "weave_steps", 1200, 4800)
        p3 == CoerceCount(p2, "moire_strand_count", 300, 800)
        p4 == CoerceCount(p3, "moire_steps", 1600, 6400)
        p5 == CoerceCount(p4, "moire_rings", 0, 400)
        p6 == CoerceCount(p5, "bubble_rows", 100, 600)
        p7 == CoerceCount(p6, "bubble_columns", 600, 1800)
        p8 == CoerceRatio(p7, "bubble_offset_ratio", 0, 100, 50)
        p9 == CoerceRatio(p8, "bubble_radius_variation", 0, 80, 30)
        p10 == CoerceCount(p9, "blob_rows", 100, 600)
        p11 == CoerceCount(p10, "blob_columns", 600, 1600)
        p12 == CoerceFloor(p11, "blob_radius", 100, 500)
        p13 == CoerceFloor(p12, "blob_offset", 50, 200)
        p14 == CoerceFloor(p13, "blob_margin", 0, 800)
        p15 == CoerceRatio(p14, "blob_radius_variation", 0, 80, 25)
        p16 == CoerceRatio(p15, "blob_mangle", 0, 100, 30)
    IN  CoerceFloor(p16, "blob_jitter", 0, 80)

\* normalize_params with the shade radius raised before the neck radius.
normalize_params_ShadeFirst(p) ==
    NormPatternCounts(NormBaseCounts(NormSleeve(NormLoft(
        NormShadeHeight(NormNeck(NormShadeRadius(p)))))))

\* lines 328-374: the parameter set as normalize_params leaves it
normalize_params(p) ==
    NormPatternCounts(NormBaseCounts(NormSleeve(NormLoft(
        NormShadeHeight(NormShadeRadius(NormNeck(p)))))))


\* ------------------------------------------------------------------------
\* State
\* ------------------------------------------------------------------------
VARIABLES
    p0,           \* the parameter set as the caller supplied it
    p,            \* the parameter set (params in main), mutated in place
    port_radius,  \* the value the last normalize_params call returned
    passes,       \* how many times normalize_params has run on p
    p_prev,       \* p as it was before the last normalize_params call
    port_prev,    \* port_radius as it was before the last call
    pc,           \* where main is
    redraw,       \* whether the host redraws (rs.EnableRedraw)
    raised,       \* the exception that ended the try block, or "none"
    kernel,       \* the kernel's objects and the stale uses of handles
    fail,         \* the kernel call that returns an empty result in this run
    cap_copy,     \* whether CapPlanarHoles hands back a new object
    loc           \* main's and create_shade's local variables

normVars == <<p0, p, port_radius, passes, p_prev, port_prev>>

mainVars == <<pc, redraw, raised, kernel, fail, cap_copy, loc>>

vars == <<normVars, mainVars>>

\* ------------------------------------------------------------------------
\* Inputs of normalize_params
\* ------------------------------------------------------------------------
MaxPasses == 2

DiamVals == {200 * k : k \in 1..MaxDiam}
ClearVals == {0, 50}
WallMinVals == {100}
RadVals == {200 * k : k \in 0..MaxRad}
TolVals == {0, 50}
WallVals == {50, 100}
NeckHeightVals == {100, 200}
LenVals == {100 * k : k \in 0..MaxLen}

CountKeys ==
    {"shade_loft_bottom_sides", "shade_loft_top_sides", "twist_sides",
     "twist_layers", "spiral_waves", "spiral_layers", "spiral_points_per_wave",
     "ripple_waves", "ripple_layers", "ripple_points_per_wave",
     "weave_strand_count", "weave_steps", "moire_strand_count", "moire_steps",
     "moire_rings", "bubble_rows", "bubble_columns", "blob_rows",
     "blob_columns"}

RatioKeys ==
    {"shade_loft_top_scale", "spiral_wave_amp", "ripple_wave_amp",
     "bubble_offset_ratio", "bubble_radius_variation", "blob_radius",
     "blob_offset", "blob_margin", "blob_radius_variation", "blob_mangle",
     "blob_jitter"}

\* How the caller sets the keys that lines 339-373 coerce: as in PARAMS,
\* left out of the mapping, or every count at c and every ratio at r.
Profiles ==
    {[kind |-> "params", c |-> 0, r |-> 0],
     [kind |-> "absent", c |-> 0, r |-> 0],
     [kind |-> "set", c |-> 0, r |-> 0 - 10],
     [kind |-> "set", c |-> 0 - 150, r |-> 1],
     [kind |-> "set", c |-> 2050, r |-> 250]}

WithProfile(q, prof) ==
    CASE prof.kind = "params" -> q
      [] prof.kind = "absent" ->
            [k \in (DOMAIN q) \ (CountKeys \cup RatioKeys) |-> q[k]]
      [] OTHER ->
            [k \in DOMAIN q |->
                IF k \in CountKeys THEN prof.c
                ELSE IF k \in RatioKeys THEN prof.r
                ELSE q[k]]

\* PARAMS with the fit and port parameters overridden.
WithFit(cd, bd, pcl, nwm, nor, tol, sw, sor, nh, sh, slh) ==
    [k \in DOMAIN PARAMS |->
        CASE k = "cord_diameter" -> cd
          [] k = "bulb_diameter" -> bd
          [] k = "port_clearance" -> pcl
          [] k = "neck_wall_min" -> nwm
          [] k = "neck_outer_radius" -> nor
          [] k = "tolerance" -> tol
          [] k = "shade_wall" -> sw
          [] k = "shade_outer_radius" -> sor
          [] k = "neck_height" -> nh
          [] k = "shade_height" -> sh
          [] k = "sleeve_height" -> slh
          [] OTHER -> PARAMS[k]]

\* The fit and port parameters vary over their whole ranges with the other
\* keys as in PARAMS; the coerced keys vary with a few fit settings.  Lines
\* 339-341 and 347-373 read and write one key each, so no coerced key depends
\* on a fit parameter or on another coerced key.
NormInputs ==
    {WithFit(cd, bd, pcl, nwm, nor, tol, sw, sor, nh, sh, slh) :
        cd \in DiamVals, bd \in DiamVals, pcl \in ClearVals, nwm \in WallMinVals,
        nor \in RadVals, tol \in TolVals, sw \in WallVals, sor \in RadVals,
        nh \in NeckHeightVals, sh \in LenVals, slh \in LenVals}
    \cup
    {WithProfile(WithFit(200, 400, 50, 100, nor, 50, 50, 200, 200, sh, slh), prof) :
        nor \in RadVals, sh \in LenVals, slh \in LenVals, prof \in Profiles}

\* main's locals before they are assigned
NoLocals ==
    [base_id |-> 0, base_height |-> 0, variant |-> "", shell |-> 0, shade |-> 0,
     pattern_surface |-> 0, selected |-> 0]

\* ------------------------------------------------------------------------
\* normalize_params as an operation on a parameter set
\* ------------------------------------------------------------------------
InitNorm ==
    /\ p0 \in NormInputs
    /\ p = p0
    /\ port_radius = 0
    /\ passes = 0
    /\ p_prev = p0
    /\ port_prev = 0
    /\ pc = "call"
    /\ redraw = TRUE
    /\ raised = "none"
    /\ kernel = [objs |-> << >>, stale |-> {}]
    /\ fail = [site |-> "none", at |-> 0]
    /\ cap_copy = FALSE
    /\ loc = NoLocals

\* port_radius = normalize_params(p)
NormalizeCall ==
    /\ passes < MaxPasses
    /\ p_prev' = p
    /\ port_prev' = port_radius
    /\ p' = normalize_params(p)
    /\ port_radius' = PortRadius(p)
    /\ passes' = passes + 1
    /\ UNCHANGED <<p0, mainVars>>

NextNorm == NormalizeCall

SpecNorm == InitNorm /\ [][NextNorm]_vars

\* ------------------------------------------------------------------------
\* The geometry kernel, as the script uses it
\* ------------------------------------------------------------------------
\* A handle is the index of an object in kernel.objs; Null is None.
Null == 0

\* Whether the call at `site`, on its invocation number `at`, returns empty.
Fails(site, at) == fail.site = site /\ fail.at = at

IsLive(k, id) == id # Null /\ k.objs[id].st = "live"

\* A call that is handed handles: a handle of an object that no longer
\* exists is a stale use.
Touch(k, ids, site) ==
    IF \E id \in ids : id # Null /\ k.objs[id].st # "live"
    THEN [k EXCEPT !.stale = @ \cup {site}]
    ELSE k

\* A call that makes an object from the objects `inputs` (rs.AddBox,
\* rs.AddCylinder, rs.AddLoftSrf, ...): empty when it fails or when one of
\* its inputs is empty.
KCreate(k, site, at, arg, inputs) ==
    LET k1 == Touch(k, inputs, site)
    IN  IF Fails(site, at) \/ Null \in inputs
        THEN [k |-> k1, r |-> Null]
        ELSE [k |-> [k1 EXCEPT !.objs =
                        Append(@, [site |-> site, st |-> "live", arg |-> arg,
                                    name |-> ""])],
              r |-> Len(k1.objs) + 1]

\* rs.DeleteObject(id)
KDelete(k, id, site) ==
    IF id = Null THEN k
    ELSE IF k.objs[id].st # "live" THEN Touch(k, {id}, site)
    ELSE [k EXCEPT !.objs[id].st = "deleted"]

RECURSIVE KDeleteAll(_, _, _)
\* for c in ids: rs.DeleteObject(c)
KDeleteAll(k, ids, site) ==
    IF ids = << >> THEN k
    ELSE KDeleteAll(KDelete(k, Head(ids), site), Tail(ids), site)

RECURSIVE KConsume(_, _)
\* delete_input=True: a boolean that succeeds deletes its inputs.
KConsume(k, ids) ==
    IF ids = << >> THEN k
    ELSE KConsume([k EXCEPT !.objs[Head(ids)].st = "consumed"], Tail(ids))

\* [o for o in objs if o]
NonNull(ids) == SelectSeq(ids, LAMBDA o : o # Null)

SeqSet(ids) == {ids[i] : i \in 1..Len(ids)}

\* rs.BooleanUnion(objs, delete_input=True) or
\* rs.BooleanDifference(target, cutters, delete_input=True) on the handles
\* `ids`, through to_single.
KBoolean(k, site, ids) ==
    LET k1 == Touch(k, SeqSet(ids), site)
    IN  IF Fails(site, 0) \/ \E id \in SeqSet(ids) : ~IsLive(k, id)
        THEN [k |-> k1, r |-> Null]
        ELSE [k |-> [KConsume(k1, ids) EXCEPT !.objs =
                        Append(@, [site |-> site, st |-> "live", arg |-> ids,
                                    name |-> ""])],
              r |-> Len(k1.objs) + 1]

\* lines 147-151
safe_boolean_union(k, site, objs) ==
    LET live == NonNull(objs)
    IN  IF live = << >> THEN [k |-> k, r |-> Null]
        ELSE KBoolean(k, site, live)

\* lines 154-160
safe_boolean_diff(k, site, target, cutters) ==
    IF target = Null THEN [k |-> k, r |-> Null]
    ELSE LET cs == NonNull(cutters)
         IN  IF cs = << >> THEN [k |-> k, r |-> target]
             ELSE KBoolean(k, site, <<target>> \o cs)

\* lines 163-171.  rs.CapPlanarHoles hands back a capped object (a new
\* one when cap_copy, the same one otherwise) or nothing, and then obj_id
\* itself is returned.
cap_if_possible(k, site, obj_id) ==
    LET k1 == Touch(k, {obj_id}, site)
    IN  IF obj_id = Null \/ Fails(site, 0) \/ ~cap_copy
        THEN [k |-> k1, r |-> obj_id]
        ELSE KCreate(k1, site, 0, <<obj_id>>, {obj_id})

\* ------------------------------------------------------------------------
\* Base builders
\* ------------------------------------------------------------------------

\* lines 174-187
add_box_centered(k, width, depth, height, base_z) ==
    KCreate(k, "AddBox.base", 0, <<width, depth, height, base_z>>, {})

\* lines 190-204
add_triangle_prism(k, side, height, base_z) ==
    LET poly == KCreate(k, "AddPolyline.triangle", 0, <<side, base_z>>, {})
        surfaces == KCreate(poly.k, "AddPlanarSrf.triangle", 0, << >>, {poly.r})
        base == surfaces.r
        path == KCreate(surfaces.k, "AddLine.triangle", 0, <<base_z, height>>, {})
        prism == KCreate(path.k, "ExtrudeSurface.triangle", 0, <<height>>,
                         {base, path.r})
        k1 == KDelete(prism.k, poly.r, "DeleteObject.triangle")
        k2 == KDelete(k1, base, "DeleteObject.triangle")
        k3 == KDelete(k2, path.r, "DeleteObject.triangle")
    IN  cap_if_possible(k3, "CapPlanarHoles.base", prism.r)

RECURSIVE CreateEach(_, _, _, _, _)
\* A loop or list that makes one object per pass by one kernel call at
\* `site` (lines 208-213, 234-241, 280-288, 310-318, 616-630, 844-851),
\* from pass i to pass n - 1: the handles in creation order, an empty one
\* included when keep_null.  Point coordinates are not modelled.
CreateEach(k, site, i, n, keep_null) ==
    IF i >= n THEN [k |-> k, r |-> << >>]
    ELSE LET c == KCreate(k, site, i, <<i>>, {})
             rest == CreateEach(c.k, site, i + 1, n, keep_null)
         IN  [k |-> rest.k,
              r |-> IF c.r # Null \/ keep_null THEN <<c.r>> \o rest.r ELSE rest.r]

\* rs.AddLoftSrf(curves), through to_single, then the deletion of the curves
\* and cap_if_possible (lines 214-218, 244-248, 291-295, 321-325).
LoftAndCap(k, curves) ==
    LET loft == KCreate(k, "AddLoftSrf.base", 0, curves, SeqSet(curves))
        k1 == KDeleteAll(loft.k, curves, "DeleteObject.base")
    IN  cap_if_possible(k1, "CapPlanarHoles.base", loft.r)

\* lines 207-218
add_vase(k, height, base_radius, mid_radius, neck_radius) ==
    LoftAndCap(CreateEach(k, "AddCircle.vase", 0, 4, TRUE).k,
               CreateEach(k, "AddCircle.vase", 0, 4, TRUE).r)

\* lines 231-248 (add_polygon_curve: lines 221-228)
add_twisted_base(k, height, radius, top_scale, sides, layers, rotation_degrees) ==
    LET n == Max(2, IntTrunc(layers) \div One) + 1
        cs == CreateEach(k, "AddPolyline.polygon", 0, n, FALSE)
    IN  IF cs.r = << >> THEN [k |-> cs.k, r |-> Null]
        ELSE LoftAndCap(cs.k, cs.r)

\* lines 268-295 (add_wave_curve: lines 251-265)
add_spiral_base(k, height, radius, top_scale, waves, amplitude, layers, twist_degrees, points_per_wave) ==
    LET n == Max(2, IntTrunc(layers) \div One) + 1
        cs == CreateEach(k, "AddPolyline.spiral", 0, n, FALSE)
    IN  IF cs.r = << >> THEN [k |-> cs.k, r |-> Null]
        ELSE LoftAndCap(cs.k, cs.r)

\* lines 298-325 (add_wave_curve: lines 251-265)
add_ripple_base(k, height, radius, top_scale, waves, amplitude, layers, twist_degrees, points_per_wave) ==
    LET n == Max(2, IntTrunc(layers) \div One) + 1
        cs == CreateEach(k, "AddPolyline.ripple", 0, n, FALSE)
    IN  IF cs.r = << >> THEN [k |-> cs.k, r |-> Null]
        ELSE LoftAndCap(cs.k, cs.r)

\* rs.ObjectName(id, name)
ObjectName(k, id, name) ==
    IF IsLive(k, id) THEN [k EXCEPT !.objs[id].name = name]
    ELSE Touch(k, {id}, "ObjectName")

\* BaseVariant without the aliases and with no builder for other values.
BaseVariant_NoDefault(base_type) ==
    CASE base_type = "cube" -> "add_box_centered"
      [] base_type = "triangle" -> "add_triangle_prism"
      [] base_type = "vase" -> "add_vase"
      [] base_type = "twisted" -> "add_twisted_base"
      [] base_type = "spiral" -> "add_spiral_base"
      [] base_type = "ripple" -> "add_ripple_base"
      [] OTHER -> "none"

\* The branch of the if/elif chain of lines 382-429 that a lower-cased
\* base_type takes, named by the builder it calls.
BaseVariant(base_type) ==
    CASE base_type = "cube" -> "add_box_centered"
      [] base_type = "triangle" -> "add_triangle_prism"
      [] base_type = "vase" -> "add_vase"
      [] base_type \in {"twisted", "twist", "faceted"} -> "add_twisted_base"
      [] base_type \in {"spiral", "wave", "ripples"} -> "add_spiral_base"
      [] base_type \in {"ripple", "scallop", "scalloped"} -> "add_ripple_base"
      [] OTHER -> "add_box_centered"

\* lines 382-429: the call of the builder of the variant
BuildBase(k, q, variant) ==
    CASE variant = "add_box_centered" ->
            add_box_centered(k, q["base_width"], q["base_depth"],
                             q["base_height"], 0)
      [] variant = "add_triangle_prism" ->
            add_triangle_prism(k, q["triangle_side"], q["base_height"], 0)
      [] variant = "add_vase" ->
            add_vase(k, q["vase_height"], q["vase_base_radius"],
                     q["vase_mid_radius"], q["vase_neck_radius"])
      [] variant = "add_twisted_base" ->
            add_twisted_base(k, q["twist_height"], q["twist_radius"],
                             q["twist_top_scale"], q["twist_sides"],
                             q["twist_layers"], q["twist_rotation"])
      [] variant = "add_spiral_base" ->
            add_spiral_base(k, q["spiral_height"], q["spiral_radius"],
                            q["spiral_top_scale"], q["spiral_waves"],
                            q["spiral_wave_amp"], q["spiral_layers"],
                            q["spiral_twist"], q["spiral_points_per_wave"])
      [] OTHER ->
            add_ripple_base(k, q["ripple_height"], q["ripple_radius"],
                            q["ripple_top_scale"], q["ripple_waves"],
                            q["ripple_wave_amp"], q["ripple_layers"],
                            q["ripple_twist"], q["ripple_points_per_wave"])

\* BaseHeight with the global base_height for every variant.
BaseHeight_Global(q, variant) == q["base_height"]

\* lines 379, 395, 406, 417, 427: base_height after the if/elif chain
BaseHeight(q, variant) ==
    CASE variant = "add_vase" -> q["vase_height"]
      [] variant = "add_twisted_base" -> q["twist_height"]
      [] variant = "add_spiral_base" -> q["spiral_height"]
      [] variant = "add_ripple_base" -> q["ripple_height"]
      [] OTHER -> q["base_height"]

\* lines 431-432: the neck, joined to the base the builder returned (built)
JoinNeck(built, q, base_height) ==
    LET neck == KCreate(built.k, "AddCylinder.neck", 0,
                        <<base_height, q["neck_height"], q["neck_outer_radius"]>>, {})
    IN  safe_boolean_union(neck.k, "BooleanUnion.base", <<built.r, neck.r>>)

\* lines 434-436: the cable port, cut from the joined base
BorePort(joined, q, base_height, pr) ==
    LET port_height == base_height + q["neck_height"] + 500
        port_cyl == KCreate(joined.k, "AddCylinder.port", 0,
                            <<0 - 200, port_height, pr>>, {})
    IN  safe_boolean_diff(port_cyl.k, "BooleanDifference.port",
                          joined.r, <<port_cyl.r>>)

\* lines 438-439
NameBase(bored, base_height, variant) ==
    [k |-> ObjectName(bored.k, bored.r, "Lamp_Base"),
     r |-> bored.r,
     base_height |-> base_height,
     variant |-> variant]

\* lines 377-439: the kernel after the call, the returned (base_with_neck,
\* base_height), and the builder that was called (variant).
create_base(k, q, pr) ==
    LET variant == BaseVariant(Lower(q["base_type"]))
        base_height == BaseHeight(q, variant)
    IN  NameBase(BorePort(JoinNeck(BuildBase(k, q, variant), q, base_height),
                          q, base_height, pr),
                 base_height, variant)

\* ------------------------------------------------------------------------
\* Shade shells
\* ------------------------------------------------------------------------

\* rs.IsSurface(id)
IsSurface(k, id) == IsLive(k, id)

\* SleeveInnerRadius with the tolerance left out.
SleeveInnerRadius_NoTolerance(q) == q["neck_outer_radius"]

\* lines 447 and 1000
SleeveInnerRadius(q) == q["neck_outer_radius"] + q["tolerance"]

\* The local variables of create_lofted_shade (lines 442-508): the kernel
\* and the handle each name holds, None before its assignment.
LoftedLocals(k) ==
    [k |-> k, bottom_curve |-> Null, top_curve |-> Null, outer_loft |-> Null,
     outer_copy |-> Null, outer_shell |-> Null, inner_bottom_curve |-> Null,
     inner_top_curve |-> Null, inner_loft |-> Null, inner_shell |-> Null,
     inner_sleeve |-> Null, shade |-> Null]

\* name = the result (res.r) of a call that leaves the kernel res.k
Assign(s, name, res) == [s EXCEPT !.k = res.k, ![name] = res.r]

\* lines 453-466
LoftedOuterLoft(s, q, base_height) ==
    LET bottom_curve == KCreate(s.k, "AddPolyline.shade_bottom", 0,
                                <<q["shade_outer_radius"], base_height>>, {})
        top_curve == KCreate(bottom_curve.k, "AddPolyline.shade_top", 0,
                             <<base_height + q["shade_height"]>>, {})
        outer_loft == KCreate(top_curve.k, "AddLoftSrf.shade_outer", 0, << >>,
                              {bottom_curve.r, top_curve.r})
    IN  [s EXCEPT !.k = outer_loft.k, !.bottom_curve = bottom_curve.r,
                  !.top_curve = top_curve.r, !.outer_loft = outer_loft.r]

\* lines 468-469
LoftedOuterCopy(s) ==
    IF s.outer_loft # Null
    THEN Assign(s, "outer_copy",
                KCreate(s.k, "CopyObject.shade_outer", 0, <<s.outer_loft>>,
                        {s.outer_loft}))
    ELSE s

\* lines 470-471
LoftedCapCopy(s) ==
    IF s.outer_copy # Null
    THEN Assign(s, "outer_shell",
                cap_if_possible(s.k, "CapPlanarHoles.shade_outer", s.outer_copy))
    ELSE s

\* lines 472-473
LoftedCapLoft(s) ==
    IF s.outer_loft # Null /\ s.outer_shell = Null
    THEN Assign(s, "outer_shell",
                cap_if_possible(s.k, "CapPlanarHoles.shade_outer", s.outer_loft))
    ELSE s

\* lines 475-489
LoftedInnerLoft(s, q, base_height) ==
    LET inner_bottom_curve == KCreate(s.k, "AddPolyline.shade_inner_bottom", 0,
                                      <<base_height + q["sleeve_height"]>>, {})
        inner_top_curve == KCreate(inner_bottom_curve.k, "AddPolyline.shade_inner_top",
                                   0, <<base_height + q["shade_height"]>>, {})
        inner_loft == KCreate(inner_top_curve.k, "AddLoftSrf.shade_inner", 0, << >>,
                              {inner_bottom_curve.r, inner_top_curve.r})
    IN  [s EXCEPT !.k = inner_loft.k, !.inner_bottom_curve = inner_bottom_curve.r,
                  !.inner_top_curve = inner_top_curve.r, !.inner_loft = inner_loft.r]

\* line 490
LoftedInnerShell(s) ==
    IF s.inner_loft # Null
    THEN Assign(s, "inner_shell",
                cap_if_possible(s.k, "CapPlanarHoles.shade_inner", s.inner_loft))
    ELSE s

\* lines 492-497
LoftedSleeve(s, q, base_height) ==
    Assign(s, "inner_sleeve",
           KCreate(s.k, "AddCylinder.sleeve", 0,
                   <<base_height, q["sleeve_height"], SleeveInnerRadius(q)>>, {}))

\* line 499
LoftedDifference(s) ==
    Assign(s, "shade",
           safe_boolean_diff(s.k, "BooleanDifference.shell", s.outer_shell,
                             <<s.inner_shell, s.inner_sleeve>>))

\* lines 501-505
LoftedDeleteCurves(s) ==
    LET k1 == KDeleteAll(s.k,
                         NonNull(<<s.bottom_curve, s.top_curve,
                                   s.inner_bottom_curve, s.inner_top_curve>>),
                         "DeleteObject.shade_curves")
    IN  [s EXCEPT !.k = IF s.inner_loft # Null /\ s.inner_loft # s.inner_shell
                        THEN KDelete(k1, s.inner_loft, "DeleteObject.inner_loft")
                        ELSE k1]

\* lines 507-508
LoftedReturn(s) ==
    [k |-> Touch(s.k, {s.outer_loft}, "IsSurface.outer_loft"),
     r |-> s.shade,
     pattern_surface |-> IF IsSurface(s.k, s.outer_loft) THEN s.outer_loft ELSE Null]

\* lines 442-508: the kernel after the call and the returned
\* (shade, pattern_surface).
create_lofted_shade(k, q, base_height) ==
    LET outer_loft == LoftedOuterLoft(LoftedLocals(k), q, base_height)
        outer_shell == LoftedCapLoft(LoftedCapCopy(LoftedOuterCopy(outer_loft)))
        inner_loft == LoftedInnerLoft(outer_shell, q, base_height)
        inner_sleeve == LoftedSleeve(LoftedInnerShell(inner_loft), q, base_height)
        shade == LoftedDifference(inner_sleeve)
    IN  LoftedReturn(LoftedDeleteCurves(shade))

\* lines 1007-1027: the cylindrical shell of create_shade
create_cylindrical_shade(k, q, base_height) ==
    LET shade_outer_radius == q["shade_outer_radius"]
        shade_wall == q["shade_wall"]
        shade_height == q["shade_height"]
        sleeve_height == q["sleeve_height"]
        shade_inner_radius == shade_outer_radius - shade_wall
        sleeve_inner_radius == SleeveInnerRadius(q)
        outer == KCreate(k, "AddCylinder.shade_outer", 0,
                         <<base_height, shade_height, shade_outer_radius>>, {})
        upper_height == clamp_min(shade_height - sleeve_height, shade_wall * 2)
        inner_upper == KCreate(outer.k, "AddCylinder.shade_inner", 0,
                               <<base_height + sleeve_height, upper_height,
                                 shade_inner_radius>>, {})
        inner_sleeve == KCreate(inner_upper.k, "AddCylinder.sleeve", 0,
                                <<base_height, sleeve_height, sleeve_inner_radius>>, {})
        shade == safe_boolean_diff(inner_sleeve.k, "BooleanDifference.shell",
                                   outer.r, <<inner_upper.r, inner_sleeve.r>>)
    IN  [k |-> shade.k, r |-> shade.r, pattern_surface |-> Null]

\* lines 1002-1027: the dispatch on shade_form
create_shell(k, q, base_height) ==
    IF Lower(Get(q, "shade_form", "cylindrical")) = "lofted"
    THEN create_lofted_shade(k, q, base_height)
    ELSE create_cylindrical_shade(k, q, base_height)

\* ------------------------------------------------------------------------
\* Pattern generators.  Each returns the kernel after the call, the shade
\* it returns (r) and the fault its own code raised ("none" when none).
\* ------------------------------------------------------------------------

\* int(x) as a number of loop passes
Count(x) == IntTrunc(x) \div One

\* 0.5 + 0.5 * math.sin(x), in hundredths.  Only sin(0) is computed: the
\* pipeline's inputs keep the wave frequencies at 0.
HalfWave(x) == CASE x = 0 -> 50

\* return safe_boolean_diff(shade, cutters) (lines 566, 632, 727, 806, 853,
\* 924), the list of cutters being res.r and the kernel res.k.
CutPattern(res, shade) ==
    LET cut == safe_boolean_diff(res.k, "BooleanDifference.pattern", shade, res.r)
    IN  [k |-> cut.k, r |-> cut.r, fault |-> "none"]

\* lines 539-549: whether slot i is skipped (slot_h <= shade_wall), with
\* heights scaled by 10000.
SlotSkipped(q, sleeve_height, base_height, i) ==
    LET shade_wall == q["shade_wall"]
        slot_body_height == q["shade_height"] - sleeve_height - 2 * q["slot_margin"]
        wave == HalfWave(i * q["slot_wave_frequency"])
        height_scale == 10000 - q["slot_variation"] * wave
        slot_h0 == clamp_min(slot_body_height * height_scale, shade_wall * 2 * 10000)
        slot_z0 == base_height + sleeve_height + q["slot_margin"]
        slot_top_limit == base_height + q["shade_height"] - q["slot_margin"]
        slot_h == Min(slot_h0, (slot_top_limit - slot_z0) * 10000)
    IN  slot_h <= shade_wall * 10000

RECURSIVE SlotLoop(_, _, _, _, _, _, _)
\* lines 539-564: the slots list, empty handles included
SlotLoop(k, q, sleeve_height, base_height, i, n, made) ==
    IF i >= n THEN [k |-> k, r |-> << >>]
    ELSE IF SlotSkipped(q, sleeve_height, base_height, i)
         THEN SlotLoop(k, q, sleeve_height, base_height, i + 1, n, made)
         ELSE LET slot == KCreate(k, "AddBox.slot", made, <<i>>, {})
                  rest == SlotLoop(slot.k, q, sleeve_height, base_height,
                                   i + 1, n, made + 1)
              IN  [k |-> rest.k, r |-> <<slot.r>> \o rest.r]

\* lines 511-566
add_slot_pattern(k, shade, q, base_height, sleeve_height, shade_outer_radius, shade_inner_radius) ==
    LET slot_count == Count(q["slot_count"])
        slot_body_height == q["shade_height"] - sleeve_height - 2 * q["slot_margin"]
    IN  IF slot_count <= 0 THEN [k |-> k, r |-> shade, fault |-> "none"]
        ELSE IF slot_body_height <= q["shade_wall"]
             THEN [k |-> k, r |-> shade, fault |-> "none"]
             ELSE CutPattern(SlotLoop(k, q, sleeve_height, base_height, 0,
                                      slot_count, 0),
                             shade)

\* lines 606-612: whether a lattice row is skipped (z1 - z0 <= shade_wall),
\* with heights scaled by 200 * rows so that row_step and the halves are whole.
LatticeRowSkipped(q, sleeve_height, base_height, rows, row) ==
    LET S == 200 * rows
        margin == q["lattice_margin"]
        available_height == q["shade_height"] - sleeve_height - 2 * margin
        half_window == Min(q["lattice_window_height"] * 100 * rows,
                           available_height * 85)
        lo == base_height + sleeve_height + margin
        hi == base_height + q["shade_height"] - margin
        row_center == lo * S + available_height * 100 * (2 * row + 1)
        z0 == Max(row_center - half_window, lo * S)
        z1 == Min(row_center + half_window, hi * S)
    IN  z1 - z0 <= q["shade_wall"] * S

RECURSIVE LatticeLoop_OnePerRow(_, _, _, _, _, _, _, _)
\* LatticeLoop without the inner loop of line 616: one box per row.
LatticeLoop_OnePerRow(k, q, sleeve_height, base_height, rows, columns, row, made) ==
    IF row >= rows THEN [k |-> k, r |-> << >>]
    ELSE LET boxes == CreateEach(k, "AddBox.lattice", made, made + 1, TRUE)
             rest == LatticeLoop_OnePerRow(boxes.k, q, sleeve_height, base_height,
                                           rows, columns, row + 1, made + 1)
         IN  [k |-> rest.k, r |-> boxes.r \o rest.r]

RECURSIVE LatticeLoop(_, _, _, _, _, _, _, _)
\* lines 605-630: the slots list, empty handles included
LatticeLoop(k, q, sleeve_height, base_height, rows, columns, row, made) ==
    IF row >= rows THEN [k |-> k, r |-> << >>]
    ELSE IF LatticeRowSkipped(q, sleeve_height, base_height, rows, row)
         THEN LatticeLoop(k, q, sleeve_height, base_height, rows, columns,
                          row + 1, made)
         ELSE LET boxes == CreateEach(k, "AddBox.lattice", made, made + columns, TRUE)
                  rest == LatticeLoop(boxes.k, q, sleeve_height, base_height, rows,
                                      columns, row + 1, made + columns)
              IN  [k |-> rest.k, r |-> boxes.r \o rest.r]

\* lines 569-632
add_lattice_pattern(k, shade, q, base_height, sleeve_height, shade_outer_radius, shade_inner_radius) ==
    LET rows == Count(q["lattice_rows"])
        columns == Count(q["lattice_columns"])
        available_height == q["shade_height"] - sleeve_height - 2 * q["lattice_margin"]
    IN  IF rows <= 0 \/ columns <= 0 THEN [k |-> k, r |-> shade, fault |-> "none"]
        ELSE IF available_height <= q["shade_wall"]
             THEN [k |-> k, r |-> shade, fault |-> "none"]
             ELSE IF Min(q["lattice_window_height"] * 100 * rows, available_height * 85)
                        <= q["shade_wall"] * 100 * rows
                  THEN [k |-> k, r |-> shade, fault |-> "none"]
                  ELSE CutPattern(LatticeLoop(k, q, sleeve_height, base_height,
                                              rows, columns, 0, 0),
                                  shade)

RECURSIVE HelixLoop(_, _, _, _, _)
\* lines 661-670 from strand i, with the pipes made so far; off is the number
\* of strands earlier calls of build_helix_pipes have made in this run.
\* domain[0] on an empty rs.CurveDomain result is a TypeError.
HelixLoop(k, i, n, off, pipes) ==
    IF i >= n THEN [k |-> k, r |-> pipes, fault |-> "none"]
    ELSE LET curve == KCreate(k, "AddPolyline.helix", off + i, <<off + i>>, {})
             pipe == KCreate(curve.k, "AddPipe.helix", off + i, <<off + i>>, {curve.r})
             k1 == KDelete(pipe.k, curve.r, "DeleteObject.helix")
         IN  IF curve.r = Null THEN HelixLoop(curve.k, i + 1, n, off, pipes)
             ELSE IF Fails("CurveDomain.helix", off + i)
                  THEN [k |-> curve.k, r |-> pipes, fault |-> "TypeError"]
                  ELSE HelixLoop(k1, i + 1, n, off,
                                 IF pipe.r # Null THEN Append(pipes, pipe.r) ELSE pipes)

\* lines 648-671 (build_helix_curve: lines 635-645)
build_helix_pipes(k, strands, off) ==
    HelixLoop(k, 0, Max(1, strands), off, << >>)

\* pipes.extend(build_helix_pipes(...)) (lines 702-725, 759-794): acc holds
\* the kernel, the list so far and the fault an earlier call raised.
ExtendHelix(acc, strands, off) ==
    IF acc.fault # "none" THEN acc
    ELSE LET pipes == build_helix_pipes(acc.k, strands, off)
         IN  [k |-> pipes.k, r |-> acc.r \o pipes.r, fault |-> pipes.fault]

\* lines 796-804
ExtendRings(acc, ring_count) ==
    IF acc.fault # "none" THEN acc
    ELSE LET rings == CreateEach(acc.k, "AddTorus.moire", 0, ring_count, FALSE)
         IN  [k |-> rings.k, r |-> acc.r \o rings.r, fault |-> "none"]

\* lines 727 and 806, not reached when a call before it raised
CutUnlessFault(acc, shade) ==
    IF acc.fault # "none" THEN [k |-> acc.k, r |-> Null, fault |-> acc.fault]
    ELSE CutPattern(acc, shade)

\* lines 674-727
add_weave_pattern(k, shade, q, base_height, sleeve_height, shade_outer_radius, shade_inner_radius) ==
    LET strands == Count(q["weave_strand_count"])
        z0 == base_height + sleeve_height + q["weave_margin"]
        z1 == base_height + q["shade_height"] - q["weave_margin"]
        pipes == [k |-> k, r |-> << >>, fault |-> "none"]
    IN  IF strands <= 0 THEN [k |-> k, r |-> shade, fault |-> "none"]
        ELSE IF z1 - z0 <= q["shade_wall"]
             THEN [k |-> k, r |-> shade, fault |-> "none"]
             ELSE CutUnlessFault(
                      ExtendHelix(ExtendHelix(pipes, strands, 0), strands, strands),
                      shade)

\* lines 730-806
add_moire_pattern(k, shade, q, base_height, sleeve_height, shade_outer_radius, shade_inner_radius) ==
    LET strands == Count(q["moire_strand_count"])
        z0 == base_height + sleeve_height + q["moire_margin"]
        z1 == base_height + q["shade_height"] - q["moire_margin"]
        cutters == [k |-> k, r |-> << >>, fault |-> "none"]
        ring_count == Count(q["moire_rings"])
    IN  IF strands <= 0 THEN [k |-> k, r |-> shade, fault |-> "none"]
        ELSE IF z1 - z0 <= q["shade_wall"]
             THEN [k |-> k, r |-> shade, fault |-> "none"]
             ELSE CutUnlessFault(
                      ExtendRings(
                          ExtendHelix(
                              ExtendHelix(ExtendHelix(cutters, strands, 0),
                                          strands, strands),
                              strands, 2 * strands),
                          ring_count),
                      shade)

\* lines 809-853
add_bubble_pattern(k, shade, q, base_height, sleeve_height, shade_outer_radius, shade_inner_radius) ==
    LET rows == Count(q["bubble_rows"])
        columns == Count(q["bubble_columns"])
        z0 == base_height + sleeve_height + q["bubble_margin"]
        z1 == base_height + q["shade_height"] - q["bubble_margin"]
    IN  IF rows <= 0 \/ columns <= 0 THEN [k |-> k, r |-> shade, fault |-> "none"]
        ELSE IF z1 - z0 <= q["shade_wall"]
             THEN [k |-> k, r |-> shade, fault |-> "none"]
             ELSE CutPattern(CreateEach(k, "AddSphere.bubble", 0, rows * columns,
                                        FALSE),
                             shade)

\* lines 897-903: whether the sample of a row is skipped.  The pattern
\* surface runs from the bottom curve to the top curve, and the point at
\* (u, v) is taken to rise linearly with v; heights are scaled by 2 * rows.
BlobRowSkipped(q, sleeve_height, base_height, rows, row) ==
    LET z == base_height * 2 * rows + q["shade_height"] * (2 * row + 1)
    IN  \/ z < (base_height + sleeve_height + q["blob_margin"]) * 2 * rows
        \/ z > (base_height + q["shade_height"] - q["blob_margin"]) * 2 * rows

RECURSIVE BlobLoop(_, _, _, _, _, _, _, _)
\* lines 889-922 from sample i (row i \div columns, column i % columns)
BlobLoop(k, q, pattern_surface, sleeve_height, base_height, rows, columns, i) ==
    IF i >= rows * columns THEN [k |-> k, r |-> << >>]
    ELSE LET k1 == Touch(k, {pattern_surface}, "EvaluateSurface.blob")
             sphere == KCreate(k1, "AddSphere.blob", i, <<i>>, {})
             skip == \/ Fails("EvaluateSurface.blob", i)
                     \/ BlobRowSkipped(q, sleeve_height, base_height, rows, i \div columns)
                     \/ Fails("SurfaceNormal.blob", i)
             rest == BlobLoop(IF skip THEN k1 ELSE sphere.k, q, pattern_surface,
                              sleeve_height, base_height, rows, columns, i + 1)
         IN  [k |-> rest.k,
              r |-> IF skip \/ sphere.r = Null THEN rest.r ELSE <<sphere.r>> \o rest.r]

\* add_blobtrude_pattern without the test of lines 863-864.
add_blobtrude_pattern_NoSurfaceTest(k, shade, q, pattern_surface, base_height, sleeve_height) ==
    LET rows == Count(q["blob_rows"])
        columns == Count(q["blob_columns"])
    IN  IF rows <= 0 \/ columns <= 0 THEN [k |-> k, r |-> shade, fault |-> "none"]
        ELSE CutPattern(BlobLoop(k, q, pattern_surface, sleeve_height,
                                 base_height, rows, columns, 0),
                        shade)

\* lines 856-924
add_blobtrude_pattern(k, shade, q, pattern_surface, base_height, sleeve_height) ==
    LET rows == Count(q["blob_rows"])
        columns == Count(q["blob_columns"])
        k1 == Touch(k, {pattern_surface}, "SurfaceDomain.blob")
    IN  IF shade = Null \/ pattern_surface = Null
        THEN [k |-> k, r |-> shade, fault |-> "none"]
        ELSE IF rows <= 0 \/ columns <= 0 THEN [k |-> k, r |-> shade, fault |-> "none"]
        ELSE IF Fails("SurfaceDomain.blob", 0) \/ Fails("SurfaceDomain.blob", 1)
                   \/ ~IsLive(k, pattern_surface)
             THEN [k |-> k1, r |-> shade, fault |-> "none"]
             ELSE CutPattern(BlobLoop(k1, q, pattern_surface, sleeve_height,
                                      base_height, rows, columns, 0),
                             shade)

\* apply_shade_pattern without the test of line 937.
apply_shade_pattern_NoGuard(k, shade, q, base_height, sleeve_height, shade_outer_radius, shade_inner_radius, pattern_surface) ==
    add_slot_pattern(k, shade, q, base_height, sleeve_height,
                     shade_outer_radius, shade_inner_radius)

\* lines 927-990
apply_shade_pattern(k, shade, q, base_height, sleeve_height, shade_outer_radius, shade_inner_radius, pattern_surface) ==
    LET pattern == Lower(Get(q, "shade_pattern", "slots"))
    IN  IF shade = Null \/ pattern = "none"
        THEN [k |-> k, r |-> shade, fault |-> "none"]
        ELSE IF pattern \in {"blobtrude", "manglutified", "mangle", "blob"}
        THEN add_blobtrude_pattern(k, shade, q, pattern_surface, base_height,
                                   sleeve_height)
        ELSE IF pattern = "bubble"
        THEN add_bubble_pattern(k, shade, q, base_height, sleeve_height,
                                shade_outer_radius, shade_inner_radius)
        ELSE IF pattern = "moire"
        THEN add_moire_pattern(k, shade, q, base_height, sleeve_height,
                               shade_outer_radius, shade_inner_radius)
        ELSE IF pattern = "weave"
        THEN add_weave_pattern(k, shade, q, base_height, sleeve_height,
                               shade_outer_radius, shade_inner_radius)
        ELSE IF pattern = "lattice"
        THEN add_lattice_pattern(k, shade, q, base_height, sleeve_height,
                                 shade_outer_radius, shade_inner_radius)
        ELSE add_slot_pattern(k, shade, q, base_height, sleeve_height,
                              shade_outer_radius, shade_inner_radius)

\* ------------------------------------------------------------------------
\* main: inputs
\* ------------------------------------------------------------------------
MaxFailAt == 1

BaseTypes ==
    {"cube", "triangle", "vase", "twisted", "spiral", "ripple",
     "twist", "wave", "scallop", "VASE", "pyramid"}

ShadeForms == {"cylindrical", "lofted", "Lofted"}

ShadePatterns ==
    {"none", "None", "slots", "lattice", "weave", "moire", "bubble",
     "blobtrude", "blob", "stripes"}

\* The kernel calls of create_base and of the base builders
BaseSites ==
    {"AddBox.base", "AddPolyline.triangle", "AddPlanarSrf.triangle",
     "AddLine.triangle", "ExtrudeSurface.triangle", "CapPlanarHoles.base",
     "AddCircle.vase", "AddPolyline.polygon", "AddPolyline.spiral",
     "AddPolyline.ripple", "AddLoftSrf.base", "AddCylinder.neck",
     "BooleanUnion.base", "AddCylinder.port", "BooleanDifference.port"}

\* The kernel calls of the shade shell of a shade_form
FormSites(form) ==
    IF Lower(form) = "lofted"
    THEN {"AddPolyline.shade_bottom", "AddPolyline.shade_top",
          "AddLoftSrf.shade_outer", "CopyObject.shade_outer",
          "CapPlanarHoles.shade_outer", "AddPolyline.shade_inner_bottom",
          "AddPolyline.shade_inner_top", "AddLoftSrf.shade_inner",
          "CapPlanarHoles.shade_inner", "AddCylinder.sleeve",
          "BooleanDifference.shell"}
    ELSE {"AddCylinder.shade_outer", "AddCylinder.shade_inner",
          "AddCylinder.sleeve", "BooleanDifference.shell"}

\* The kernel calls of the generator of a shade_pattern
PatternSites(pattern) ==
    CASE Lower(pattern) = "none" -> {}
      [] Lower(pattern) \in {"blobtrude", "blob"} ->
            {"SurfaceDomain.blob", "EvaluateSurface.blob", "SurfaceNormal.blob",
             "AddSphere.blob", "BooleanDifference.pattern"}
      [] Lower(pattern) = "bubble" -> {"AddSphere.bubble", "BooleanDifference.pattern"}
      [] Lower(pattern) = "moire" ->
            {"AddPolyline.helix", "CurveDomain.helix", "AddPipe.helix",
             "AddTorus.moire", "BooleanDifference.pattern"}
      [] Lower(pattern) = "weave" ->
            {"AddPolyline.helix", "CurveDomain.helix", "AddPipe.helix",
             "BooleanDifference.pattern"}
      [] Lower(pattern) = "lattice" -> {"AddBox.lattice", "BooleanDifference.pattern"}
      [] OTHER -> {"AddBox.slot", "BooleanDifference.pattern"}

\* The count keys a shade_pattern reads
PatternCountKeys(pattern) ==
    CASE Lower(pattern) = "bubble" -> {"bubble_rows", "bubble_columns"}
      [] Lower(pattern) = "weave" -> {"weave_strand_count"}
      [] Lower(pattern) = "lattice" -> {"lattice_rows", "lattice_columns"}
      [] Lower(pattern) \in {"slots", "stripes"} -> {"slot_count"}
      [] OTHER -> {}

\* Which call returns empty: none, or invocation number `at` at a site.
FailuresAt(sites) ==
    {[site |-> "none", at |-> 0]}
        \cup {[site |-> s, at |-> n] : s \in sites, n \in 0..MaxFailAt}

\* PARAMS edited for a run: small loop counts, wave frequencies 0, and the
\* keys below as given; the key `zero` (if any) is set to 0.
RunParams(base_type, shade_form, shade_pattern, neck_outer_radius, shade_height, zero) ==
    [k \in DOMAIN PARAMS |->
        IF k = zero THEN 0
        ELSE CASE k = "base_type" -> base_type
          [] k = "shade_form" -> shade_form
          [] k = "shade_pattern" -> shade_pattern
          [] k = "neck_outer_radius" -> neck_outer_radius
          [] k = "shade_height" -> shade_height
          [] k \in {"twist_layers", "slot_count", "lattice_rows", "moire_rings",
                    "bubble_rows", "blob_rows"} -> 200
          [] k \in {"spiral_layers", "ripple_layers", "lattice_columns"} -> 300
          [] k \in {"weave_strand_count", "moire_strand_count"} -> 250
          [] k \in {"bubble_columns", "blob_columns"} -> 600
          [] k \in {"slot_wave_frequency", "bubble_wave_frequency",
                    "blob_wave_frequency"} -> 0
          [] OTHER -> PARAMS[k]]

\* Runs that vary the base, runs that vary the shade and its pattern, and
\* the lattice run with the rows of PARAMS (line 79).
Runs ==
    {[params |-> RunParams(bt, "cylindrical", "none", 2200, 13800, "no key"),
      fail |-> f, cap_copy |-> cc] :
        bt \in BaseTypes, f \in FailuresAt(BaseSites), cc \in BOOLEAN}
    \cup
    UNION {
      {[params |-> RunParams("cube", sf, sp, nor, sh, z), fail |-> f, cap_copy |-> cc] :
          z \in PatternCountKeys(sp) \cup {"no key"},
          f \in FailuresAt(FormSites(sf) \cup PatternSites(sp)),
          cc \in BOOLEAN} :
      sf \in ShadeForms, sp \in ShadePatterns, nor \in {1000, 2200},
      sh \in {3000, 13800}}
    \cup
    {[params |-> [RunParams("cube", "cylindrical", "lattice", 2200, 13800, "no key")
                     EXCEPT !["lattice_rows"] = PARAMS["lattice_rows"]],
      fail |-> [site |-> "none", at |-> 0], cap_copy |-> FALSE]}

\* ------------------------------------------------------------------------
\* main (lines 1045-1054), create_shade (lines 993-1042)
\* ------------------------------------------------------------------------
Init ==
    /\ \E run \in Runs :
          /\ p0 = run.params
          /\ fail = run.fail
          /\ cap_copy = run.cap_copy
    /\ p = p0
    /\ port_radius = 0
    /\ passes = 0
    /\ p_prev = p0
    /\ port_prev = 0
    /\ pc = "main"
    /\ redraw = TRUE
    /\ raised = "none"
    /\ kernel = [objs |-> << >>, stale |-> {}]
    /\ loc = NoLocals

\* The statements inside the try block of main
TrySteps ==
    {"normalize_params", "create_base", "create_shade", "apply_shade_pattern",
     "finish_shade", "SelectObject"}

\* AfterRaise without a finally block: the exception leaves main.
AfterRaise_NoFinally == "done"

\* Where control goes when a statement of the try block raises: the finally
\* block (lines 1053-1054).
AfterRaise == "finally"

\* line 1046, line 1048
MainEnter ==
    /\ pc = "main"
    /\ redraw' = FALSE
    /\ p' = p0
    /\ pc' = "normalize_params"
    /\ UNCHANGED <<p0, port_radius, passes, p_prev, port_prev, raised, kernel,
                   fail, cap_copy, loc>>

\* line 1049
MainNormalize ==
    /\ pc = "normalize_params"
    /\ p' = normalize_params(p)
    /\ port_radius' = PortRadius(p)
    /\ passes' = passes + 1
    /\ pc' = "create_base"
    /\ UNCHANGED <<p0, p_prev, port_prev, redraw, raised, kernel, fail,
                   cap_copy, loc>>

\* line 1050
MainCreateBase ==
    /\ pc = "create_base"
    /\ \E res \in {create_base(kernel, p, port_radius)} :
           /\ kernel' = res.k
           /\ loc' = [loc EXCEPT !.base_id = res.r,
                                 !.base_height = res.base_height,
                                 !.variant = res.variant]
    /\ pc' = "create_shade"
    /\ UNCHANGED <<normVars, redraw, raised, fail, cap_copy>>

\* line 1051, create_shade lines 993-1027: the shade shell
CreateShell ==
    /\ pc = "create_shade"
    /\ \E res \in {create_shell(kernel, p, loc.base_height)} :
           /\ kernel' = res.k
           /\ loc' = [loc EXCEPT !.shell = res.r,
                                 !.shade = res.r,
                                 !.pattern_surface = res.pattern_surface]
    /\ pc' = "apply_shade_pattern"
    /\ UNCHANGED <<normVars, redraw, raised, fail, cap_copy>>

\* create_shade lines 1029-1037.  A fault raised inside the generator leaves
\* create_shade and the try block.
ApplyPattern ==
    /\ pc = "apply_shade_pattern"
    /\ \E res \in {apply_shade_pattern(kernel, loc.shade, p, loc.base_height,
                                       p["sleeve_height"], p["shade_outer_radius"],
                                       p["shade_outer_radius"] - p["shade_wall"],
                                       loc.pattern_surface)} :
           /\ kernel' = res.k
           /\ IF res.fault = "none"
              THEN /\ loc' = [loc EXCEPT !.shade = res.r]
                   /\ pc' = "finish_shade"
                   /\ UNCHANGED raised
              ELSE /\ raised' = res.fault
                   /\ pc' = AfterRaise
                   /\ UNCHANGED loc
    /\ UNCHANGED <<normVars, redraw, fail, cap_copy>>

\* create_shade lines 1038-1042
FinishShade ==
    /\ pc = "finish_shade"
    /\ LET k1 == IF loc.pattern_surface # Null /\ loc.pattern_surface # loc.shade
                 THEN KDelete(kernel, loc.pattern_surface, "DeleteObject.pattern_surface")
                 ELSE kernel
       IN  kernel' = ObjectName(k1, loc.shade, "Lamp_Shade")
    /\ pc' = "SelectObject"
    /\ UNCHANGED <<normVars, redraw, raised, fail, cap_copy, loc>>

\* line 1052
SelectBase ==
    /\ pc = "SelectObject"
    /\ kernel' = Touch(kernel, {loc.base_id}, "SelectObject")
    /\ loc' = [loc EXCEPT !.selected = loc.base_id]
    /\ pc' = "finally"
    /\ UNCHANGED <<normVars, redraw, raised, fail, cap_copy>>

\* A call made by a statement of the try block raises.
Raise ==
    /\ pc \in TrySteps
    /\ raised' = pc
    /\ pc' = AfterRaise
    /\ UNCHANGED <<normVars, redraw, kernel, fail, cap_copy, loc>>

\* line 1054
Finally ==
    /\ pc = "finally"
    /\ redraw' = TRUE
    /\ pc' = "done"
    /\ UNCHANGED <<normVars, raised, kernel, fail, cap_copy, loc>>

Next ==
    \/ MainEnter
    \/ MainNormalize
    \/ MainCreateBase
    \/ CreateShell
    \/ ApplyPattern
    \/ FinishShade
    \/ SelectBase
    \/ Raise
    \/ Finally

Spec == Init /\ [][Next]_vars

\* ------------------------------------------------------------------------
\* Claims about normalize_params (checked under SpecNorm)
\* ------------------------------------------------------------------------

\* C1: after normalize_params returns, the returned port_radius is
\* max(cord_diameter, bulb_diameter)/2 + port_clearance, and
\* neck_outer_radius >= port_radius + neck_wall_min.
C1_Clearance ==
    passes >= 1 =>
        /\ port_radius =
              Max(p["cord_diameter"], p["bulb_diameter"]) \div 2 + p["port_clearance"]
        /\ p["neck_outer_radius"] >= port_radius + p["neck_wall_min"]

\* A run in which the supplied neck was undersized and has been raised.
C1_Witness ==
    /\ passes = 1
    /\ p0["neck_outer_radius"] < port_radius + p0["neck_wall_min"]
    /\ p["neck_outer_radius"] = port_radius + p["neck_wall_min"]

C3_ShadeRadius ==
    passes >= 1 =>
        p["shade_outer_radius"] >=
            p["neck_outer_radius"] + p["tolerance"] + p["shade_wall"]

\* A run in which the supplied shade radius cleared the supplied neck radius
\* but not the raised one.
C3_Witness ==
    /\ passes = 1
    /\ p0["neck_outer_radius"] < p["neck_outer_radius"]
    /\ p0["shade_outer_radius"] >=
           p0["neck_outer_radius"] + p0["tolerance"] + p0["shade_wall"]
    /\ p0["shade_outer_radius"] < p["shade_outer_radius"]

\* C4: a second run of normalize_params on the result of a first run
\* changes no parameter value and returns the same port_radius.
C4_Idempotent ==
    passes >= 2 => (p = p_prev /\ port_radius = port_prev)

\* A second run after a first run that changed the sleeve height, the shade
\* height and a coerced count.
C4_Witness ==
    /\ passes = 2
    /\ p0["sleeve_height"] < p0["neck_height"]
    /\ p0["shade_height"] < p["shade_height"]
    /\ "bubble_rows" \in DOMAIN p0
    /\ p0["bubble_rows"] < p["bubble_rows"]

\* ------------------------------------------------------------------------
\* Claims about the pipeline (checked under Spec)
\* ------------------------------------------------------------------------
Objects == 1..Len(kernel.objs)

\* C5: in both shade forms the sleeve cavity cylinder is built with radius
\* neck_outer_radius + tolerance, with the normalized neck_outer_radius that
\* the neck cylinder is built with: sleeve radius - neck radius = tolerance.
C5_Fit ==
    \A i \in Objects : \A j \in Objects :
        /\ kernel.objs[j].site = "AddCylinder.neck" =>
              kernel.objs[j].arg[3] = p["neck_outer_radius"]
        /\ (kernel.objs[i].site = "AddCylinder.sleeve"
              /\ kernel.objs[j].site = "AddCylinder.neck") =>
              kernel.objs[i].arg[3] - kernel.objs[j].arg[3] = p["tolerance"]

\* A lofted shade whose sleeve cylinder exists, over a neck whose radius
\* normalize_params raised.
C5_Witness ==
    /\ p["shade_form"] = "lofted"
    /\ p0["neck_outer_radius"] < p["neck_outer_radius"]
    /\ \E i \in Objects : \E j \in Objects :
          /\ kernel.objs[i].site = "AddCylinder.sleeve"
          /\ kernel.objs[j].site = "AddCylinder.neck"

\* The pattern whose count parameter the caller gave as 0.
ZeroCountGiven ==
    LET pattern == Lower(p0["shade_pattern"])
    IN  \/ pattern = "slots" /\ p0["slot_count"] = 0
        \/ pattern = "lattice" /\ (p0["lattice_rows"] = 0 \/ p0["lattice_columns"] = 0)
        \/ pattern = "weave" /\ p0["weave_strand_count"] = 0
        \/ pattern = "bubble" /\ (p0["bubble_rows"] = 0 \/ p0["bubble_columns"] = 0)

\* The objects the pattern generators make
PatternObjectSites ==
    {"AddBox.slot", "AddBox.lattice", "AddPolyline.helix", "AddPipe.helix",
     "AddTorus.moire", "AddSphere.bubble", "AddSphere.blob",
     "BooleanDifference.pattern"}

\* C6: with slots, lattice, weave or bubble selected and its count parameter
\* given as 0, the shade after pattern application is the unmodified shell:
\* no cutter is built and no boolean difference is performed.
C6_ZeroCountPassthrough ==
    (ZeroCountGiven /\ pc \in {"finish_shade", "SelectObject", "finally", "done"}) =>
        /\ loc.shade = loc.shell
        /\ \A i \in Objects : kernel.objs[i].site \notin PatternObjectSites

\* C7: apply_shade_pattern returns its shade argument itself, creating no
\* kernel object and calling no boolean operation, whenever shade_pattern is
\* "none" or the shade is null.
C7_Passthrough ==
    [][(/\ pc = "apply_shade_pattern"
        /\ pc' = "finish_shade"
        /\ (loc.shade = Null \/ Lower(Get(p, "shade_pattern", "slots")) = "none"))
       => (loc'.shade = loc.shade /\ kernel' = kernel)]_vars

\* apply_shade_pattern has returned for a shell that exists, with "none"
\* selected and the slot count not 0.
C7_Witness ==
    /\ pc = "finish_shade"
    /\ p["shade_pattern"] = "none"
    /\ p["slot_count"] > 0
    /\ loc.shell # Null
    /\ loc.shade = loc.shell

\* The six variant names
VariantNames == {"cube", "triangle", "vase", "twisted", "spiral", "ripple"}

\* The builder of a variant name
BuilderNamed(name) ==
    CASE name = "cube" -> "add_box_centered"
      [] name = "triangle" -> "add_triangle_prism"
      [] name = "vase" -> "add_vase"
      [] name = "twisted" -> "add_twisted_base"
      [] name = "spiral" -> "add_spiral_base"
      [] name = "ripple" -> "add_ripple_base"

\* The variant name an alias stands for
AliasOf(name) ==
    CASE name \in {"twist", "faceted"} -> "twisted"
      [] name \in {"wave", "ripples"} -> "spiral"
      [] name \in {"scallop", "scalloped"} -> "ripple"
      [] OTHER -> name

\* The box of the cube variant is the first object of a run.
CubeBuilt ==
    (loc.variant = "add_box_centered" /\ ~Fails("AddBox.base", 0)) =>
        /\ kernel.objs[1].site = "AddBox.base"
        /\ kernel.objs[1].arg =
              <<p["base_width"], p["base_depth"], p["base_height"], 0>>

\* C8 as stated: create_base builds the cube for every base_type that is not
\* one of the six variant names, and for each of the six names the variant
\* of that name.
C8_Original ==
    loc.variant # "" =>
        /\ loc.variant = IF p["base_type"] \in VariantNames
                         THEN BuilderNamed(p["base_type"])
                         ELSE "add_box_centered"
        /\ CubeBuilt

\* C8 amended: create_base lower-cases base_type; it builds the variant of
\* each of the six names and of the aliases twist, faceted (twisted), wave,
\* ripples (spiral), scallop, scalloped (ripple), and the cube for every
\* other value.
C8_Amended ==
    loc.variant # "" =>
        /\ loc.variant = IF AliasOf(Lower(p["base_type"])) \in VariantNames
                         THEN BuilderNamed(AliasOf(Lower(p["base_type"])))
                         ELSE "add_box_centered"
        /\ CubeBuilt

\* create_base has built the box for a base_type that names no variant.
C8_Witness ==
    /\ pc = "create_shade"
    /\ p["base_type"] = "pyramid"
    /\ loc.variant = "add_box_centered"
    /\ kernel.objs[1].site = "AddBox.base"

\* C9: redraw is disabled before any pipeline step runs and is enabled again
\* in every terminal state, after a successful run and after a run in which
\* a step raised.
C9_RedrawRestored ==
    /\ pc \in TrySteps \cup {"finally"} => redraw = FALSE
    /\ pc = "done" => redraw = TRUE

\* A run that ended because create_shade raised.
C9_Witness ==
    /\ pc = "done"
    /\ raised = "create_shade"
    /\ redraw = TRUE

\* C10: when a kernel call returns an empty result, the script's own code
\* raises no fault.
C10_NoFault ==
    fail.site # "none" => raised # "TypeError"

\* The objects that are still live and are not a named output solid
Leaked ==
    {i \in Objects : /\ kernel.objs[i].st = "live"
                     /\ kernel.objs[i].name \notin {"Lamp_Base", "Lamp_Shade"}}

\* C11: at the end of every run of main that no exception cut short, runs in
\* which a kernel call returned an empty result included, every object made
\* during the run other than the solids named Lamp_Base and Lamp_Shade has
\* been consumed or deleted.
C11_NoLeak ==
    (pc = "done" /\ raised = "none") => Leaked = {}

\* C12: no handle is handed to a kernel call after a boolean call consumed
\* it or after it was deleted, and the pattern surface the lofted shade
\* returns is not the object that the boolean difference of the shell was
\* given as its target.
C12_NoStaleUse ==
    /\ kernel.stale = {}
    /\ loc.pattern_surface # Null =>
          \A i \in Objects :
              kernel.objs[i].site = "BooleanDifference.shell" =>
                  kernel.objs[i].arg[1] # loc.pattern_surface

\* The names that select the blobtrude pattern (line 939)
BlobNames == {"blobtrude", "manglutified", "mangle", "blob"}

\* C13: the cylindrical shade form has no pattern surface, and when the
\* blobtrude pattern (or an alias) is selected with no pattern surface,
\* pattern application returns the shade shell itself and makes no sphere.
C13_BlobNeedsSurface ==
    /\ (Lower(Get(p, "shade_form", "cylindrical")) # "lofted")
          => loc.pattern_surface = Null
    /\ (/\ pc \in {"finish_shade", "SelectObject"}
        /\ Lower(Get(p, "shade_pattern", "slots")) \in BlobNames
        /\ loc.pattern_surface = Null)
          => /\ loc.shade = loc.shell
             /\ \A i \in Objects :
                   kernel.objs[i].site \notin {"AddSphere.blob",
                                               "BooleanDifference.pattern"}

\* Pattern application has returned for a cylindrical shell that exists,
\* with the alias "blob" selected.
C13_Witness ==
    /\ pc = "finish_shade"
    /\ p["shade_pattern"] = "blob"
    /\ p["shade_form"] = "cylindrical"
    /\ loc.shell # Null
    /\ loc.shade = loc.shell

\* The rows of the lattice that the height-band check (line 611) keeps
LatticeRowsKept ==
    {row \in 0..(Count(p["lattice_rows"]) - 1) :
        ~LatticeRowSkipped(p, p["sleeve_height"], loc.base_height,
                           Count(p["lattice_rows"]), row)}

\* The boxes of the lattice whose creation returned empty
LatticeBoxesFailed ==
    IF /\ fail.site = "AddBox.lattice"
       /\ fail.at < Count(p["lattice_columns"]) * Cardinality(LatticeRowsKept)
    THEN 1 ELSE 0

\* C14: the boolean difference of the lattice is given lattice_columns
\* cutters for every row that the height-band check keeps, less the boxes
\* whose creation returned empty: lattice_rows * lattice_columns cutters when
\* no row is skipped and every box is made.
C14_LatticeCount ==
    Lower(Get(p, "shade_pattern", "slots")) = "lattice" =>
        \A i \in Objects :
            kernel.objs[i].site = "BooleanDifference.pattern" =>
                /\ Len(kernel.objs[i].arg) - 1 =
                      Count(p["lattice_columns"]) * Cardinality(LatticeRowsKept)
                          - LatticeBoxesFailed
                /\ (/\ Cardinality(LatticeRowsKept) = Count(p["lattice_rows"])
                    /\ fail.site # "AddBox.lattice")
                      => Len(kernel.objs[i].arg) - 1 =
                            Count(p["lattice_rows"]) * Count(p["lattice_columns"])

\* The lattice of 6 rows and 3 columns has been cut with 18 cutters.
C14_Witness ==
    /\ p["shade_pattern"] = "lattice"
    /\ p["lattice_rows"] = 600
    /\ p["lattice_columns"] = 300
    /\ \E i \in Objects :
          /\ kernel.objs[i].site = "BooleanDifference.pattern"
          /\ Len(kernel.objs[i].arg) - 1 = 18

\* The builder of the base returned a solid
BaseSolidMade ==
    \E i \in Objects :
        kernel.objs[i].site \in {"AddBox.base", "ExtrudeSurface.triangle",
                                 "AddLoftSrf.base"}

\* The neck cylinder was made
NeckMade == \E i \in Objects : kernel.objs[i].site = "AddCylinder.neck"

\* C16: once create_base has returned, the kernel has been given no union
\* of a single solid; when the base solid is null and the neck is not, the
\* port bore was cut from the neck itself; when both are null no port
\* difference was made and the returned solid is null.
C16_UnionDegrades ==
    loc.variant # "" =>
        /\ \A i \in Objects :
              kernel.objs[i].site = "BooleanUnion.base" =>
                  Len(kernel.objs[i].arg) >= 2
        /\ (~BaseSolidMade /\ NeckMade) =>
              \A i \in Objects : \A j \in Objects :
                  (/\ kernel.objs[i].site = "AddCylinder.neck"
                   /\ kernel.objs[j].site = "BooleanDifference.port")
                      => kernel.objs[j].arg[1] = i
        /\ (~BaseSolidMade /\ ~NeckMade) =>
              /\ loc.base_id = Null
              /\ \A i \in Objects :
                    kernel.objs[i].site # "BooleanDifference.port"

\* The height parameter of the variant that base_type selects
VariantHeight ==
    LET name == AliasOf(Lower(p["base_type"]))
    IN  CASE name = "vase" -> p["vase_height"]
          [] name = "twisted" -> p["twist_height"]
          [] name = "spiral" -> p["spiral_height"]
          [] name = "ripple" -> p["ripple_height"]
          [] OTHER -> p["base_height"]

\* C17: the base height create_base returns is the height parameter of the
\* variant built; the neck is seated at it, the port bore is
\* base height + neck_height + 5.0 long, and the shells of create_shade
\* start at it.
C17_BaseHeight ==
    loc.variant # "" =>
        /\ loc.base_height = VariantHeight
        /\ \A i \in Objects :
              /\ kernel.objs[i].site = "AddCylinder.neck" =>
                    kernel.objs[i].arg[1] = loc.base_height
              /\ kernel.objs[i].site = "AddCylinder.port" =>
                    kernel.objs[i].arg[2] = loc.base_height + p["neck_height"] + 500
              /\ kernel.objs[i].site \in {"AddCylinder.shade_outer",
                                          "AddCylinder.sleeve"} =>
                    kernel.objs[i].arg[1] = loc.base_height
              /\ kernel.objs[i].site = "AddPolyline.shade_bottom" =>
                    kernel.objs[i].arg[2] = loc.base_height

\* The shade shell has been built over a vase, whose height is not the
\* global base_height.
C17_Witness ==
    /\ pc = "apply_shade_pattern"
    /\ loc.variant = "add_vase"
    /\ loc.base_height = p["vase_height"]
    /\ p["vase_height"] # p["base_height"]
    /\ \E i \in Objects : kernel.objs[i].site = "AddCylinder.neck"
    /\ \E i \in Objects : kernel.objs[i].site = "AddCylinder.shade_outer"

\* ------------------------------------------------------------------------
\* Further claims about normalize_params (checked under SpecNorm)
\* ------------------------------------------------------------------------

\* C15 as stated: after normalize_params, sleeve_height is
\* min(max(s, neck_height), shade_height - 2*shade_wall), with s the
\* sleeve_height supplied and shade_height the normalized value.
C15_Original ==
    passes >= 1 =>
        p["sleeve_height"] =
            Min(Max(p_prev["sleeve_height"], p_prev["neck_height"]),
                p["shade_height"] - 2 * p["shade_wall"])

\* C15 amended: after normalize_params, sleeve_height is
\* min(f, shade_height - 2*shade_wall), where f is the supplied s when
\* s >= neck_height and neck_height + 1.0 when s < neck_height.
C15_Amended ==
    passes >= 1 =>
        p["sleeve_height"] =
            Min(IF p_prev["sleeve_height"] < p_prev["neck_height"]
                THEN p_prev["neck_height"] + One
                ELSE p_prev["sleeve_height"],
                p["shade_height"] - 2 * p["shade_wall"])

\* A sleeve supplied below neck_height has come out at neck_height + 1.0,
\* the ceiling leaving room for it.
C15_Witness ==
    /\ passes = 1
    /\ p0["sleeve_height"] < p0["neck_height"]
    /\ p["sleeve_height"] = p["neck_height"] + One

\* The inputs of the fit that normalize_params only reads
FitInputs ==
    {"cord_diameter", "bulb_diameter", "port_clearance", "neck_wall_min",
     "neck_height", "tolerance", "shade_wall"}

\* C18: a call of normalize_params never lowers neck_outer_radius,
\* shade_outer_radius or shade_height, leaves each as supplied when it
\* meets its minimum, and changes none of cord_diameter, bulb_diameter,
\* port_clearance, neck_wall_min, neck_height, tolerance and shade_wall.
C18_OnlyRaises ==
    passes >= 1 =>
        /\ \A k \in {"neck_outer_radius", "shade_outer_radius", "shade_height"} :
              p[k] >= p_prev[k]
        /\ p_prev["neck_outer_radius"] >= port_radius + p_prev["neck_wall_min"]
              => p["neck_outer_radius"] = p_prev["neck_outer_radius"]
        /\ p_prev["shade_outer_radius"] >=
                 p["neck_outer_radius"] + p_prev["tolerance"] + p_prev["shade_wall"]
              => p["shade_outer_radius"] = p_prev["shade_outer_radius"]
        /\ p_prev["shade_height"] >=
                 p_prev["neck_height"] + 2 * p_prev["shade_wall"]
              => p["shade_height"] = p_prev["shade_height"]
        /\ \A k \in FitInputs : p[k] = p_prev[k]

\* A neck supplied above its minimum has been left as it was, while the
\* shade radius was raised.
C18_Witness ==
    /\ passes = 1
    /\ p0["neck_outer_radius"] > port_radius + p0["neck_wall_min"]
    /\ p["neck_outer_radius"] = p0["neck_outer_radius"]
    /\ p["shade_outer_radius"] > p0["shade_outer_radius"]

=============================================================================
